---- MODULE Spec2Model ----
(***************************************************************************)
(* Mimirion: the commit graph (CommitManager, src/src/commit.cpp) and the  *)
(* repository controller (Repository, src/src/repository.cpp) over one     *)
(* metadata directory, the staging index (FileTracker,                     *)
(* src/src/file_tracker.cpp) and the diff engine (DiffEngine,              *)
(* src/src/diff.cpp).                                                      *)
(*                                                                         *)
(* A text file is a sequence of lines; a line is a tagged tuple:           *)
(*   <<"txt", s>>        a line of plain text s (no tab in it)             *)
(*   <<"tab", p, h>>     the text p, a tab, the text h                     *)
(*   <<"commit", h>>     "commit " followed by h                           *)
(*   <<"parent", h>>     "parent " followed by h                           *)
(*   <<"author", t>>, <<"committer", t>>  the identity lines, stamped t    *)
(* A string with newlines in it (a commit message) is the sequence of the  *)
(* lines between its newlines, so "" is <<Txt("")>> and "m\n" is           *)
(* <<Txt("m"), Txt("")>>.                                                  *)
(*                                                                         *)
(* A hash is a tagged tuple as well; utils::sha256 is taken as injective,  *)
(* so the digest of a text is the tuple of what the text was built from.   *)
(***************************************************************************)
EXTENDS Integers, Sequences, FiniteSets, TLC

VARIABLES
    HEAD,          \* .mimirion/HEAD: the branch named by "ref: refs/heads/<b>"
    refs,          \* .mimirion/refs/heads/<b>: the text written to it, or NoRef
    objects,       \* .mimirion/objects: hash -> lines of the object file
    worktree,      \* working tree: path -> content, or Absent
    now,           \* the system clock, in ticks
    currentBranch, \* Repository::currentBranch
    stagedFiles,   \* Repository::stagedFiles
    currentHead,   \* CommitManager::currentHead
    commits,       \* CommitManager::commits (cache of loaded commits)
    last,          \* the last call that writes: its name, arguments and result
    files,         \* FileTracker::files: path -> FileInfo
    index,         \* .mimirion/index: the lines FileTracker::saveState wrote
    target,        \* the file applyDiff patches: its content, character by character
    diff,          \* the FileDiff the caller of the DiffEngine holds, or Null
    handles        \* two CommitManager objects of two processes: each one's
                   \* currentHead and its position inside createCommit

vars == <<HEAD, refs, objects, worktree, now, currentBranch, stagedFiles,
          currentHead, commits, last, files, index, target, diff, handles>>

(***************************************************************************)
(* Bounds of the model.                                                    *)
(***************************************************************************)
MaxTime == 2
MaxObjects == 2
MaxStaged == 1
\* The ticks of the system clock in one second (scaled down).
TicksPerSecond == 2

Branches == {"master", "f"}
PathOrder == <<"a", "b">>
Paths == {PathOrder[i] : i \in 1..Len(PathOrder)}

Txt(s) == <<"txt", s>>
Blank == Txt("")
FilesMarker == Txt("files:")
TabLine(p, h) == <<"tab", p, h>>

Contents == {<<Txt("x")>>}

NoHash == <<>>
NoRef == <<"noref">>
Absent == << <<"absent", "">> >>
Null == [null |-> TRUE]
DummyFileHash == <<"dummy-file-hash">>

\* The commit messages callers pass: "m" and "m\n".
Messages == { <<Txt("m")>>, <<Txt("m"), Blank>> }

\* The staged lists callers pass to createCommit.
StagedLists == { <<>>, <<"a">>, <<"b", "a">> }

\* More messages, for the object format: the empty message, two lines, a
\* blank line between two lines, a leading blank line, and a message with a
\* line that reads "files:".
CodecMessages ==
    Messages \cup
    { <<Blank>>, <<Txt("m"), Txt("n")>>, <<Txt("m"), Blank, Txt("n")>>,
      <<Blank, Txt("m")>>, <<Txt("m"), FilesMarker, TabLine("b", DummyFileHash)>> }

Range(s) == {s[i] : i \in 1..Len(s)}

\* utils::sha256File of a working-tree file.
BlobHash(content) == <<"blob", content>>

\* utils::formatTimestamp: "%Y-%m-%dT%H:%M:%SZ" of the time, which is the time
\* cut to its whole second.
formatTimestamp(t) == <<"utc", t \div TicksPerSecond>>

\* The trailing-newline loop of createCommit and loadCommitObject.
RECURSIVE StripTrailingNewlines(_)
StripTrailingNewlines(msg) ==
    IF Len(msg) > 1 /\ msg[Len(msg)] = Blank
    THEN StripTrailingNewlines(SubSeq(msg, 1, Len(msg) - 1))
    ELSE msg

\* A default-constructed CommitInfo.
EmptyCommit ==
    [hash |-> NoHash, message |-> <<Blank>>, timestamp |-> <<>>,
     parentHashes |-> <<>>, fileHashes |-> <<>>]

\* The parent list of a new commit.
ParentsOfNew(head) == IF head # NoHash THEN <<head>> ELSE <<>>

\* The file table of a new commit.
FileTableOfNew(staged) == [p \in Range(staged) |-> DummyFileHash]

\* A hash that leaves the parent lines out of the hashed text.
generateCommitHash_NoParents(commit) ==
    <<"sha", <<>>, formatTimestamp(commit.timestamp[1]), commit.message>>

\* CommitManager::generateCommitHash: the digest of the tree placeholder, the
\* parent lines, the author and committer lines and the message.
generateCommitHash(commit) ==
    <<"sha", commit.parentHashes, formatTimestamp(commit.timestamp[1]), commit.message>>

\* The lines "<path>\t<hash>" of a file table. The table is an unordered_map,
\* whose iteration order is unspecified; no reader depends on the order of
\* these lines, and they are written here in the order of PathOrder.
FileLines(table) ==
    LET F[i \in 0..Len(PathOrder)] ==
            IF i = 0 THEN <<>>
            ELSE F[i - 1] \o (IF PathOrder[i] \in DOMAIN table
                              THEN <<TabLine(PathOrder[i], table[PathOrder[i]])>>
                              ELSE <<>>)
    IN F[Len(PathOrder)]

\* The text CommitManager::saveCommitObject writes.
CommitText(commit) ==
    <<<<"commit", commit.hash>>>>
    \o [i \in 1..Len(commit.parentHashes) |-> <<"parent", commit.parentHashes[i]>>]
    \o << <<"author", formatTimestamp(commit.timestamp[1])>>,
          <<"committer", formatTimestamp(commit.timestamp[1])>> >>
    \o <<Blank>> \o commit.message
    \o <<Blank, FilesMarker>>
    \o FileLines(commit.fileHashes)

\* Lines i..Len(text) of text.
From(text, i) == SubSeq(text, i, Len(text))

\* The index of the first line of text equal to line, or Len(text) + 1.
FirstIndex(text, line) ==
    IF \E i \in 1..Len(text) : text[i] = line
    THEN CHOOSE i \in 1..Len(text) : text[i] = line /\ \A j \in 1..(i - 1) : text[j] # line
    ELSE Len(text) + 1

\* The subsequence of the lines of text whose tag is tag.
RECURSIVE Tagged(_, _)
Tagged(text, tag) ==
    IF text = <<>> THEN <<>>
    ELSE (IF Head(text)[1] = tag THEN <<Head(text)>> ELSE <<>>) \o Tagged(Tail(text), tag)

\* The file table read from the lines after "files:": every line with a tab
\* in it sets the entry of its path, a later line overwriting an earlier one.
ParseFileTable(text) ==
    LET tabs == Tagged(text, "tab")
    IN [p \in {tabs[i][2] : i \in 1..Len(tabs)} |->
          LET k == CHOOSE i \in 1..Len(tabs) :
                      tabs[i][2] = p /\ \A j \in (i + 1)..Len(tabs) : tabs[j][2] # p
          IN tabs[k][3]]

\* The parsing of an object file by CommitManager::loadCommitObject.
ParseCommit(hash, text) ==
    IF text = <<>> \/ text[1][1] # "commit" THEN EmptyCommit
    ELSE LET rest    == Tail(text)
             hEnd    == FirstIndex(rest, Blank)
             header  == SubSeq(rest, 1, hEnd - 1)
             body    == From(rest, hEnd + 1)
             mEnd    == FirstIndex(body, FilesMarker)
             parents == Tagged(header, "parent")
         IN [hash |-> hash,
             message |-> StripTrailingNewlines(SubSeq(body, 1, mEnd - 1) \o <<Blank>>),
             timestamp |-> <<>>,
             parentHashes |-> [i \in 1..Len(parents) |-> parents[i][2]],
             fileHashes |-> IF mEnd <= Len(body)
                            THEN ParseFileTable(From(body, mEnd + 1))
                            ELSE <<>>]

\* CommitManager::loadCommitObject on the object store objs. The code returns
\* the empty commit for a hash shorter than two characters; the only such
\* hash text of the model is the empty one.
loadCommitObject(objs, hash) ==
    IF hash = NoHash \/ hash \notin DOMAIN objs THEN EmptyCommit
    ELSE ParseCommit(hash, objs[hash])

\* The loop of CommitManager::getHistory from current, count entries taken.
RECURSIVE Walk(_, _, _, _)
Walk(objs, current, maxCount, count) ==
    IF current = NoHash \/ ~(maxCount = 0 \/ count < maxCount) THEN <<>>
    ELSE LET commit == loadCommitObject(objs, current)
         IN IF commit.hash = NoHash THEN <<>>
            ELSE IF commit.parentHashes = <<>> THEN <<commit>>
            ELSE <<commit>> \o Walk(objs, commit.parentHashes[1], maxCount, count + 1)

\* CommitManager::getHistory.
HistoryOf(objs, head, maxCount) == Walk(objs, head, maxCount, 0)

\* The first line of the text written to a ref file (std::getline). A commit
\* hash is one line; the placeholder hash of Repository::commit holds the
\* message, and ends at the message's first newline.
FirstLine(ref) ==
    IF ref # <<>> /\ ref[1] = "fake" /\ Len(ref[2]) > 1 THEN <<"fake-cut", ref[2][1]>>
    ELSE ref

\* The CommitInfo CommitManager::createCommit builds.
NewCommit(message, staged, head, t) ==
    LET c == [hash |-> NoHash,
              message |-> StripTrailingNewlines(message),
              timestamp |-> <<t>>,
              parentHashes |-> ParentsOfNew(head),
              fileHashes |-> FileTableOfNew(staged)]
    IN [c EXCEPT !.hash = generateCommitHash(c)]

\* Writing text to the object file of hash (std::ofstream truncates).
WriteObject(objs, hash, text) == (hash :> text) @@ objs

Call(op, args, ret) == [op |-> op, args |-> args, ret |-> ret]

\* The CommitManager objects of two processes that share one metadata
\* directory, and the message each passes to createCommit.
Handles == {"h1", "h2"}

MessageOf(h) == IF h = "h1" THEN <<Txt("m")>> ELSE <<Txt("n")>>

\* A CommitManager as its constructor leaves it; no call is in progress.
FreshHandle == [pc |-> "new", currentHead |-> NoHash, commit |-> EmptyCommit, made |-> {}]

\* A file std::ofstream has opened, and so truncated, and not yet written.
EmptyFile == <<>>

Init ==
    /\ HEAD = "master"
    /\ refs = [b \in Branches |-> NoRef]
    /\ objects = <<>>
    /\ worktree = [p \in Paths |-> Absent]
    /\ now = 0
    /\ currentBranch = "master"
    /\ stagedFiles = <<>>
    /\ currentHead = NoHash
    /\ commits = <<>>
    /\ last = Call("init", <<>>, TRUE)
    /\ files = <<>>
    /\ index = <<>>
    /\ target = <<>>
    /\ diff = Null
    /\ handles = [h \in Handles |-> FreshHandle]

\* The test fixtures' createSampleFile: the user writes a working-tree file.
WriteFile(p, c) ==
    /\ worktree[p] # c
    /\ worktree' = [worktree EXCEPT ![p] = c]
    /\ UNCHANGED <<HEAD, refs, objects, now, currentBranch, stagedFiles,
                   currentHead, commits, last, files, index, target, diff, handles>>

\* Time passes.
Tick ==
    /\ now < MaxTime
    /\ now' = now + 1
    /\ UNCHANGED <<HEAD, refs, objects, worktree, currentBranch, stagedFiles,
                   currentHead, commits, last, files, index, target, diff, handles>>

(***************************************************************************)
(* CommitManager                                                           *)
(***************************************************************************)

\* The constructor: a new handle on the same metadata directory.
NewCommitManager ==
    /\ currentHead' = NoHash
    /\ commits' = <<>>
    /\ last' = Call("CommitManager", <<>>, TRUE)
    /\ UNCHANGED <<HEAD, refs, objects, worktree, now, currentBranch, stagedFiles, files, index, target, diff, handles>>

\* CommitManager::loadState.
loadState ==
    /\ currentHead' = IF refs["master"] # NoRef THEN FirstLine(refs["master"]) ELSE NoHash
    /\ last' = Call("loadState", <<>>, TRUE)
    /\ UNCHANGED <<HEAD, refs, objects, worktree, now, currentBranch, stagedFiles, commits, files, index, target, diff, handles>>

NothingStaged_Unchecked(staged) == FALSE

\* The guard of createCommit: nothing staged.
NothingStaged(staged) == staged = <<>>

\* CommitManager::createCommit(message, staged). saveOk and refOk say whether
\* the object file and the ref file can be opened for writing.
createCommit(message, staged, saveOk, refOk) ==
    LET commit == NewCommit(message, staged, currentHead, now)
    IN IF NothingStaged(staged)
       THEN /\ last' = Call("createCommit", <<staged>>, NoHash)
            /\ UNCHANGED <<HEAD, refs, objects, worktree, now, currentBranch,
                           stagedFiles, currentHead, commits, files, index, target, diff, handles>>
       ELSE IF ~saveOk
       THEN /\ last' = Call("createCommit", <<staged>>, NoHash)
            /\ UNCHANGED <<HEAD, refs, objects, worktree, now, currentBranch,
                           stagedFiles, currentHead, commits, files, index, target, diff, handles>>
       ELSE /\ objects' = WriteObject(objects, commit.hash, CommitText(commit))
            /\ currentHead' = commit.hash
            /\ IF ~refOk
               THEN /\ last' = Call("createCommit", <<staged>>, NoHash)
                    /\ UNCHANGED <<HEAD, refs>>
               ELSE /\ refs' = [refs EXCEPT !["master"] = commit.hash]
                    /\ HEAD' = "master"
                    /\ last' = Call("createCommit", <<staged>>, commit.hash)
            /\ UNCHANGED <<worktree, now, currentBranch, stagedFiles, commits, files, index, target, diff, handles>>

\* What CommitManager::getCommit(hash) returns, and the cache after it.
CommitOf(cache, objs, hash) ==
    IF hash \in DOMAIN cache THEN cache[hash]
    ELSE LET c == loadCommitObject(objs, hash)
         IN IF c.hash = NoHash THEN Null ELSE c

CacheAfter(cache, objs, hash) ==
    IF hash \in DOMAIN cache \/ CommitOf(cache, objs, hash) = Null THEN cache
    ELSE (hash :> CommitOf(cache, objs, hash)) @@ cache

\* CommitManager::getCommit: returns CommitOf(commits, objects, hash).
getCommit(hash) ==
    /\ commits' = CacheAfter(commits, objects, hash)
    /\ UNCHANGED <<HEAD, refs, objects, worktree, now, currentBranch, stagedFiles,
                   currentHead, last, files, index, target, diff, handles>>

\* What CommitManager::getHeadCommit returns.
HeadCommitOf(cache, objs, head) ==
    IF head = NoHash THEN Null ELSE CommitOf(cache, objs, head)

\* CommitManager::getHeadCommit: returns HeadCommitOf(commits, objects, currentHead).
getHeadCommit ==
    /\ commits' = IF currentHead = NoHash THEN commits
                  ELSE CacheAfter(commits, objects, currentHead)
    /\ UNCHANGED <<HEAD, refs, objects, worktree, now, currentBranch, stagedFiles,
                   currentHead, last, files, index, target, diff, handles>>

\* CommitManager::getHistory(maxCount): a const method; the call returns
\* HistoryOf(objects, currentHead, maxCount) and writes nothing.
getHistory(maxCount) ==
    /\ Len(HistoryOf(objects, currentHead, maxCount)) >= 0
    /\ UNCHANGED vars

(***************************************************************************)
(* Repository                                                              *)
(***************************************************************************)

\* Repository::add(path).
add(path) ==
    /\ Len(stagedFiles) < MaxStaged
    /\ IF worktree[path] = Absent
       THEN /\ last' = Call("add", <<path>>, FALSE)
            /\ UNCHANGED stagedFiles
       ELSE /\ stagedFiles' = Append(stagedFiles, path)
            /\ last' = Call("add", <<path>>, TRUE)
    /\ UNCHANGED <<HEAD, refs, objects, worktree, now, currentBranch, currentHead, commits, files, index, target, diff, handles>>

\* std::find and erase: s without the first occurrence of x.
EraseFirst(s, x) ==
    IF x \notin Range(s) THEN s
    ELSE LET i == CHOOSE k \in 1..Len(s) : s[k] = x /\ \A j \in 1..(k - 1) : s[j] # x
         IN SubSeq(s, 1, i - 1) \o SubSeq(s, i + 1, Len(s))

\* Repository::remove(path), for a path that is not the empty string.
remove(path) ==
    /\ stagedFiles' = EraseFirst(stagedFiles, path)
    /\ last' = Call("remove", <<path>>, TRUE)
    /\ UNCHANGED <<HEAD, refs, objects, worktree, now, currentBranch, currentHead, commits, files, index, target, diff, handles>>

\* The hash Repository::commit makes up: the message, "-" and the clock.
FakeHash(message, t) == <<"fake", message, t>>

\* Repository::commit(message). refOk says whether the ref file can be opened.
commit(message, refOk) ==
    /\ IF ~refOk
       THEN /\ last' = Call("commit", <<message>>, NoHash)
            /\ UNCHANGED refs
       ELSE /\ refs' = [refs EXCEPT ![currentBranch] = FakeHash(message, now)]
            /\ last' = Call("commit", <<message>>, FakeHash(message, now))
    /\ UNCHANGED <<HEAD, objects, worktree, now, currentBranch, stagedFiles,
                   currentHead, commits, files, index, target, diff, handles>>

\* Repository::createBranch(name).
createBranch(name) ==
    /\ IF refs[name] # NoRef \/ refs[currentBranch] = NoRef
       THEN /\ last' = Call("createBranch", <<name>>, FALSE)
            /\ UNCHANGED refs
       ELSE /\ refs' = [refs EXCEPT ![name] = FirstLine(refs[currentBranch])]
            /\ last' = Call("createBranch", <<name>>, TRUE)
    /\ UNCHANGED <<HEAD, objects, worktree, now, currentBranch, stagedFiles,
                   currentHead, commits, files, index, target, diff, handles>>

\* The working tree after the restoration loop of Repository::checkout for the
\* commit c: every path of its file table whose object file exists is
\* overwritten by a copy of that file.
Restored(tree, objs, c) ==
    [p \in Paths |->
        IF p \in DOMAIN c.fileHashes /\ c.fileHashes[p] \in DOMAIN objs
        THEN objs[c.fileHashes[p]]
        ELSE tree[p]]

Cleared_Kept(staged) == staged

\* stagedFiles.clear() at the end of Repository::checkout.
Cleared(staged) == <<>>

\* Repository::status(): the text it returns, as lines. The first line names
\* the current branch; every staged path has a "new file:" line.
status ==
    << <<"On branch", currentBranch>>, Blank, Txt("Changes to be committed:"),
       Txt("  (use \"mimirion reset <file>...\" to unstage)") >>
    \o [i \in 1..Len(stagedFiles) |-> <<"new file:", stagedFiles[i]>>]
    \o << Blank, Txt("Changes not staged for commit:"),
          Txt("  (use \"mimirion add <file>...\" to update what will be committed)"),
          Txt("  (use \"mimirion checkout -- <file>...\" to discard changes)"),
          Blank, Txt("Untracked files:"),
          Txt("  (use \"mimirion add <file>...\" to include in what will be committed)") >>

\* Repository::checkout(name); the commit is read by a CommitManager of its own.
checkout(name) ==
    /\ IF refs[name] = NoRef
       THEN /\ last' = Call("checkout", <<name>>, FALSE)
            /\ UNCHANGED <<HEAD, worktree, currentBranch, stagedFiles>>
       ELSE /\ worktree' = Restored(worktree, objects,
                                    loadCommitObject(objects, FirstLine(refs[name])))
            /\ HEAD' = name
            /\ currentBranch' = name
            /\ stagedFiles' = Cleared(stagedFiles)
            /\ last' = Call("checkout", <<name>>, TRUE)
    /\ UNCHANGED <<refs, objects, now, currentHead, commits, files, index, target, diff, handles>>

\* The hashes a caller can name: those of the stored objects, those in the
\* refs, and the empty one.
KnownHashes ==
    DOMAIN objects \cup {FirstLine(refs[b]) : b \in {x \in Branches : refs[x] # NoRef}}
    \cup {NoHash}

\* createCommit is called while the object store has room for another object
\* (the bound of the model), or with nothing staged.
Room(staged) == NothingStaged(staged) \/ Cardinality(DOMAIN objects) < MaxObjects

\* The commit graph: CommitManager handles, and the branch operations of the
\* Repository on the same metadata directory; every file can be written.
Next ==
    \/ Tick
    \/ NewCommitManager
    \/ loadState
    \/ \E m \in Messages, s \in StagedLists : Room(s) /\ createCommit(m, s, TRUE, TRUE)
    \/ \E h \in KnownHashes : getCommit(h)
    \/ getHeadCommit
    \/ \E n \in 0..MaxObjects : getHistory(n)
    \/ \E b \in Branches : createBranch(b)
    \/ \E b \in Branches : checkout(b)

Spec == Init /\ [][Next]_vars

\* CommitManager handles alone, as in tests/test_commit.cpp, on a file system
\* where opening a file for writing can fail.
NextCommitManager ==
    \/ Tick
    \/ NewCommitManager
    \/ loadState
    \/ \E m \in Messages, s \in StagedLists, saveOk, refOk \in BOOLEAN :
          Room(s) /\ createCommit(m, s, saveOk, refOk)
    \/ \E h \in KnownHashes : getCommit(h)
    \/ getHeadCommit
    \/ \E n \in 0..MaxObjects : getHistory(n)

SpecCommitManager == Init /\ [][NextCommitManager]_vars

\* One CommitManager handle storing and reading back commits.
NextCodec ==
    \/ Tick
    \/ \E m \in CodecMessages, s \in StagedLists : Room(s) /\ createCommit(m, s, TRUE, TRUE)
    \/ \E h \in KnownHashes : getCommit(h)

SpecCodec == Init /\ [][NextCodec]_vars

\* The repository controller alone.
NextRepository ==
    \/ \E p \in Paths, c \in Contents : WriteFile(p, c)
    \/ Tick
    \/ \E p \in Paths : add(p)
    \/ \E p \in Paths : remove(p)
    \/ \E m \in Messages, refOk \in BOOLEAN : commit(m, refOk)
    \/ \E b \in Branches : createBranch(b)
    \/ \E b \in Branches : checkout(b)

SpecRepository == Init /\ [][NextRepository]_vars

\* A CommitManager handle on a metadata directory whose branch ref is written
\* by Repository::commit as well.
NextPlaceholder ==
    \/ Tick
    \/ \E m \in Messages : commit(m, TRUE)
    \/ NewCommitManager
    \/ loadState
    \/ \E m \in Messages, s \in StagedLists : Room(s) /\ createCommit(m, s, TRUE, TRUE)
    \/ getHeadCommit
    \/ \E n \in 0..MaxObjects : getHistory(n)

SpecPlaceholder == Init /\ [][NextPlaceholder]_vars

(***************************************************************************)
(* Two processes, each with its own CommitManager on the same metadata     *)
(* directory. The code takes no lock, so the file operations of one call   *)
(* interleave with those of the other, and a process can be killed between *)
(* any two of them. Every file written is small: std::ofstream truncates   *)
(* it when it opens it, and hands the whole text to the system at the      *)
(* std::endl or the close() that follows.                                  *)
(***************************************************************************)

handleFrame ==
    UNCHANGED <<worktree, now, currentBranch, stagedFiles, currentHead, commits,
                files, index, target, diff>>

\* CommitManager::loadState of the handle h.
H_loadState(h) ==
    /\ handles[h].pc \in {"new", "idle"}
    /\ handles' = [handles EXCEPT
                      ![h].pc = "idle",
                      ![h].currentHead = IF refs["master"] # NoRef
                                         THEN FirstLine(refs["master"]) ELSE NoHash]
    /\ last' = Call("loadState", <<h>>, TRUE)
    /\ UNCHANGED <<HEAD, refs, objects>>
    /\ handleFrame

\* CommitManager::createCommit of the handle h, up to the point where
\* saveCommitObject has opened the object file.
H_createCommit(h) ==
    /\ handles[h].pc = "idle"
    /\ Cardinality(DOMAIN objects) < MaxObjects
    /\ LET c == NewCommit(MessageOf(h), <<"a">>, handles[h].currentHead, now)
       IN  /\ objects' = WriteObject(objects, c.hash, EmptyFile)
           /\ handles' = [handles EXCEPT ![h].pc = "object opened",
                                         ![h].commit = c]
    /\ last' = Call("createCommit entered", <<h>>, TRUE)
    /\ UNCHANGED <<HEAD, refs>>
    /\ handleFrame

\* The rest of saveCommitObject: the text reaches the file at close().
H_saveCommitObject(h) ==
    /\ handles[h].pc = "object opened"
    /\ objects' = WriteObject(objects, handles[h].commit.hash,
                              CommitText(handles[h].commit))
    /\ handles' = [handles EXCEPT ![h].pc = "object written"]
    /\ last' = Call("saveCommitObject", <<h>>, TRUE)
    /\ UNCHANGED <<HEAD, refs>>
    /\ handleFrame

\* createCommit sets currentHead and opens refs/heads/master.
H_openRef(h) ==
    /\ handles[h].pc = "object written"
    /\ refs' = [refs EXCEPT !["master"] = EmptyFile]
    /\ handles' = [handles EXCEPT ![h].pc = "ref opened",
                                  ![h].currentHead = handles[h].commit.hash]
    /\ last' = Call("ref opened", <<h>>, TRUE)
    /\ UNCHANGED <<HEAD, objects>>
    /\ handleFrame

\* createCommit writes the hash to the ref file.
H_writeRef(h) ==
    /\ handles[h].pc = "ref opened"
    /\ refs' = [refs EXCEPT !["master"] = handles[h].commit.hash]
    /\ handles' = [handles EXCEPT ![h].pc = "ref written"]
    /\ last' = Call("ref written", <<h>>, TRUE)
    /\ UNCHANGED <<HEAD, objects>>
    /\ handleFrame

\* CommitManager::saveState opens HEAD.
H_openHEAD(h) ==
    /\ handles[h].pc = "ref written"
    /\ HEAD' = ""
    /\ handles' = [handles EXCEPT ![h].pc = "HEAD opened"]
    /\ last' = Call("HEAD opened", <<h>>, TRUE)
    /\ UNCHANGED <<refs, objects>>
    /\ handleFrame

\* saveState writes HEAD, and createCommit returns the hash.
H_saveState(h) ==
    /\ handles[h].pc = "HEAD opened"
    /\ HEAD' = "master"
    /\ handles' = [handles EXCEPT ![h].pc = "idle",
                                  ![h].made = @ \cup {handles[h].commit.hash}]
    /\ last' = Call("createCommit", <<h>>, handles[h].commit.hash)
    /\ UNCHANGED <<refs, objects>>
    /\ handleFrame

\* The process of the handle h is killed inside createCommit.
H_crash(h) ==
    /\ handles[h].pc \notin {"new", "idle", "crashed"}
    /\ handles' = [handles EXCEPT ![h].pc = "crashed"]
    /\ last' = Call("crash", <<h>>, TRUE)
    /\ UNCHANGED <<HEAD, refs, objects>>
    /\ handleFrame

\* The process is started again: a CommitManager is constructed.
H_restart(h) ==
    /\ handles[h].pc = "crashed"
    /\ handles' = [handles EXCEPT ![h].pc = "new", ![h].currentHead = NoHash]
    /\ last' = Call("CommitManager", <<h>>, TRUE)
    /\ UNCHANGED <<HEAD, refs, objects>>
    /\ handleFrame

NextHandles ==
    \E h \in Handles :
       \/ H_loadState(h)
       \/ H_createCommit(h)
       \/ H_saveCommitObject(h)
       \/ H_openRef(h)
       \/ H_writeRef(h)
       \/ H_openHEAD(h)
       \/ H_saveState(h)

SpecHandles == Init /\ [][NextHandles]_vars

\* The same two processes, each of which can be killed and started again.
NextCrash ==
    \/ NextHandles
    \/ \E h \in Handles : H_crash(h) \/ H_restart(h)

SpecCrash == Init /\ [][NextCrash]_vars

(***************************************************************************)
(* FileTracker (src/src/file_tracker.cpp)                                  *)
(***************************************************************************)

repositoryVars ==
    <<HEAD, refs, objects, now, currentBranch, stagedFiles, currentHead, commits,
      handles>>

\* enum class FileStatus, in the order of its declaration: the index file
\* holds the position of a status in this order, counted from zero.
FileStatus == <<"UNTRACKED", "MODIFIED", "STAGED", "COMMITTED", "DELETED">>

StatusCode(st) == (CHOOSE i \in 1..Len(FileStatus) : FileStatus[i] = st) - 1

StatusOfCode(code) == FileStatus[code + 1]

\* The contents a working-tree file is given by the user's edits.
EditedContents == Contents \cup {<<Txt("y")>>}

calculateFileHash_Empty(tree, p) == NoHash

\* FileTracker::calculateFileHash: utils::sha256File, which is the empty
\* string for a path that is not a regular file.
calculateFileHash(tree, p) == IF tree[p] = Absent THEN NoHash ELSE BlobHash(tree[p])

FileInfo(hash, lastCommitHash, fstatus) ==
    [hash |-> hash, lastCommitHash |-> lastCommitHash, status |-> fstatus]

\* The paths of the regular files of the working tree.
OnDisk(tree) == {p \in Paths : tree[p] # Absent}

StatusOnDisk_KeepsStaged(old, p, hash) ==
    IF p \in DOMAIN old
    THEN (IF old[p].status = "STAGED" THEN "STAGED"
          ELSE IF hash # old[p].lastCommitHash THEN "MODIFIED" ELSE "COMMITTED")
    ELSE "UNTRACKED"

\* The status FileTracker::updateStatus gives a file that is on disk.
StatusOnDisk(old, p, hash) ==
    IF p \in DOMAIN old
    THEN (IF hash # old[p].lastCommitHash THEN "MODIFIED" ELSE "COMMITTED")
    ELSE "UNTRACKED"

\* The map FileTracker::updateStatus builds from the old map and the tree.
UpdatedFiles(old, tree) ==
    [p \in OnDisk(tree) \cup DOMAIN old |->
        IF p \in OnDisk(tree)
        THEN FileInfo(calculateFileHash(tree, p),
                      IF p \in DOMAIN old THEN old[p].lastCommitHash ELSE NoHash,
                      StatusOnDisk(old, p, calculateFileHash(tree, p)))
        ELSE [old[p] EXCEPT !.status = "DELETED"]]

\* The lines FileTracker::saveState writes: path, hash, last-commit hash and
\* status code, separated by tabs. The map is an unordered_map; the lines are
\* written here in the order of PathOrder, and no reader depends on it.
IndexLines(fs) ==
    LET F[i \in 0..Len(PathOrder)] ==
            IF i = 0 THEN <<>>
            ELSE F[i - 1] \o (IF PathOrder[i] \in DOMAIN fs
                              THEN << <<"index", PathOrder[i], fs[PathOrder[i]].hash,
                                        fs[PathOrder[i]].lastCommitHash,
                                        StatusCode(fs[PathOrder[i]].status)>> >>
                              ELSE <<>>)
    IN F[Len(PathOrder)]

\* The map FileTracker::loadState reads from the lines of the index file, a
\* later line of a path overwriting an earlier one.
ParseIndex(lines) ==
    [p \in {lines[i][2] : i \in 1..Len(lines)} |->
        LET k == CHOOSE i \in 1..Len(lines) :
                    lines[i][2] = p /\ \A j \in (i + 1)..Len(lines) : lines[j][2] # p
        IN FileInfo(lines[k][3], lines[k][4], StatusOfCode(lines[k][5]))]

\* The index files a tracker can find when it starts: none, and the one left
\* by a session in which a was committed with the content "x".
IndexFiles ==
    { <<>>,
      IndexLines([p \in {"a"} |->
                    FileInfo(BlobHash(<<Txt("x")>>), BlobHash(<<Txt("x")>>), "COMMITTED")]) }

InitFileTracker ==
    /\ HEAD = "master"
    /\ refs = [b \in Branches |-> NoRef]
    /\ objects = <<>>
    /\ worktree = [p \in Paths |-> Absent]
    /\ now = 0
    /\ currentBranch = "master"
    /\ stagedFiles = <<>>
    /\ currentHead = NoHash
    /\ commits = <<>>
    /\ last = Call("init", <<>>, TRUE)
    /\ files = <<>>
    /\ index \in IndexFiles
    /\ target = <<>>
    /\ diff = Null
    /\ handles = [h \in Handles |-> FreshHandle]

\* The user removes a working-tree file.
DeleteFile(p) ==
    /\ worktree[p] # Absent
    /\ worktree' = [worktree EXCEPT ![p] = Absent]
    /\ UNCHANGED <<repositoryVars, last, files, index, target, diff>>

\* FileTracker::loadState.
FileTracker_loadState ==
    /\ files' = ParseIndex(index)
    /\ last' = Call("FileTracker::loadState", <<>>, TRUE)
    /\ UNCHANGED <<repositoryVars, worktree, index, target, diff>>

\* FileTracker::updateStatus. It does not save the index.
updateStatus ==
    /\ files' = UpdatedFiles(files, worktree)
    /\ last' = Call("updateStatus", <<>>, TRUE)
    /\ UNCHANGED <<repositoryVars, worktree, index, target, diff>>

\* FileTracker::stageFile(path); the index file can be opened for writing.
stageFile(path) ==
    /\ IF worktree[path] = Absent
       THEN /\ last' = Call("stageFile", <<path>>, FALSE)
            /\ UNCHANGED <<files, index>>
       ELSE LET hash == calculateFileHash(worktree, path)
                after == IF path \in DOMAIN files
                         THEN [files EXCEPT ![path].hash = hash, ![path].status = "STAGED"]
                         ELSE (path :> FileInfo(hash, NoHash, "STAGED")) @@ files
            IN /\ files' = after
               /\ index' = IndexLines(after)
               /\ last' = Call("stageFile", <<path>>, TRUE)
    /\ UNCHANGED <<repositoryVars, worktree, target, diff>>

RevertedStatus_Untracked(info, currentHash) == "UNTRACKED"

\* The status FileTracker::unstageFile reverts a staged entry to.
RevertedStatus(info, currentHash) ==
    IF info.lastCommitHash = NoHash THEN "UNTRACKED"
    ELSE IF currentHash = info.lastCommitHash THEN "COMMITTED"
    ELSE "MODIFIED"

\* FileTracker::unstageFile(path); the index file can be opened for writing.
unstageFile(path) ==
    /\ IF path \notin DOMAIN files \/ files[path].status # "STAGED"
       THEN /\ last' = Call("unstageFile", <<path>>, FALSE)
            /\ UNCHANGED <<files, index>>
       ELSE LET after == [files EXCEPT ![path].status =
                            RevertedStatus(files[path], calculateFileHash(worktree, path))]
            IN /\ files' = after
               /\ index' = IndexLines(after)
               /\ last' = Call("unstageFile", <<path>>, TRUE)
    /\ UNCHANGED <<repositoryVars, worktree, target, diff>>

SortedEntries_Descending(fs, keep) ==
    LET F[i \in 0..Len(PathOrder)] ==
            IF i = 0 THEN <<>>
            ELSE (IF PathOrder[i] \in keep
                  THEN << <<PathOrder[i], fs[PathOrder[i]]>> >>
                  ELSE <<>>) \o F[i - 1]
    IN F[Len(PathOrder)]

\* The entries of fs for the paths in keep, as <<path, FileInfo>> pairs sorted
\* by path (PathOrder is in ascending order).
SortedEntries(fs, keep) ==
    LET F[i \in 0..Len(PathOrder)] ==
            IF i = 0 THEN <<>>
            ELSE F[i - 1] \o (IF PathOrder[i] \in keep
                              THEN << <<PathOrder[i], fs[PathOrder[i]]>> >>
                              ELSE <<>>)
    IN F[Len(PathOrder)]

\* What FileTracker::getFiles returns.
FilesOf(fs) == SortedEntries(fs, DOMAIN fs)

\* What FileTracker::getStagedFiles returns.
StagedFilesOf(fs) == SortedEntries(fs, {p \in DOMAIN fs : fs[p].status = "STAGED"})

\* FileTracker::getFiles: a const method; returns FilesOf(files).
getFiles ==
    /\ Len(FilesOf(files)) >= 0
    /\ UNCHANGED vars

\* FileTracker::getStagedFiles: a const method; returns StagedFilesOf(files).
getStagedFiles ==
    /\ Len(StagedFilesOf(files)) >= 0
    /\ UNCHANGED vars

\* One FileTracker over a working tree the user edits.
NextFileTracker ==
    \/ \E p \in Paths, c \in EditedContents : WriteFile(p, c)
    \/ \E p \in Paths : DeleteFile(p)
    \/ FileTracker_loadState
    \/ updateStatus
    \/ \E p \in Paths : stageFile(p)
    \/ \E p \in Paths : unstageFile(p)
    \/ getFiles
    \/ getStagedFiles

SpecFileTracker == InitFileTracker /\ [][NextFileTracker]_vars

(***************************************************************************)
(* The claims.                                                             *)
(***************************************************************************)

\* The commit the current branch of the repository points to: HEAD names a
\* branch, whose ref file holds a hash; NoHash when the branch has no ref.
HeadTip == IF refs[HEAD] = NoRef THEN NoHash ELSE FirstLine(refs[HEAD])

\* Some call createCommit(m, s, ...) makes this step.
CreateCommitStep(m, s) ==
    \E saveOk, refOk \in BOOLEAN : createCommit(m, s, saveOk, refOk)

\* C1: createCommit is all-or-nothing. A call that succeeds sets the ref of
\* the current branch (the one HEAD names) to the returned hash and changes no
\* other ref; a call that returns the empty hash leaves every ref file, HEAD
\* and the handle's own tip as they were.
C1_AllOrNothing ==
    [][\A m \in Messages, s \in StagedLists :
          CreateCommitStep(m, s) =>
             IF last'.ret # NoHash
             THEN refs' = [refs EXCEPT ![HEAD] = last'.ret]
             ELSE refs' = refs /\ HEAD' = HEAD /\ currentHead' = currentHead]_vars

\* C2: createCommit with an empty staged list returns the empty hash, leaves
\* HEAD and every branch ref unchanged and creates no object.
C2_EmptyStagedFails ==
    [][\A m \in Messages :
          CreateCommitStep(m, <<>>) =>
             /\ last'.ret = NoHash
             /\ HEAD' = HEAD
             /\ refs' = refs
             /\ objects' = objects]_vars

\* C2's case: createCommit was called with nothing staged on a repository that
\* already has a commit, and returned the empty hash.
C2_Witness ==
    /\ last.op = "createCommit"
    /\ last.args = << <<>> >>
    /\ last.ret = NoHash
    /\ refs["master"] # NoRef
    /\ objects # <<>>

\* C3: Repository::commit with no staged file returns the empty hash and
\* creates or changes no branch ref.
C3_EmptyCommitRejected ==
    [][\A m \in Messages, refOk \in BOOLEAN :
          (stagedFiles = <<>> /\ commit(m, refOk)) =>
             last'.ret = NoHash /\ refs' = refs]_vars

\* C4: the parent list of a commit createCommit stores is the tip of the
\* current branch at the time of the call: empty when the branch has no
\* commit, the one previous tip otherwise.
C4_ParentIsBranchTip ==
    [][\A m \in Messages, s \in StagedLists :
          (CreateCommitStep(m, s) /\ last'.ret # NoHash) =>
             loadCommitObject(objects', last'.ret).parentHashes =
                (IF HeadTip = NoHash THEN <<>> ELSE <<HeadTip>>)]_vars

\* seq is the first-parent chain of the stored commits from tip, newest
\* first, down to a commit without parent.
IsFirstParentChain(seq, tip) ==
    /\ (seq = <<>>) = (loadCommitObject(objects, tip).hash = NoHash)
    /\ seq # <<>> => seq[1].hash = tip
    /\ \A i \in 1..Len(seq) : seq[i] = loadCommitObject(objects, seq[i].hash)
    /\ \A i \in 1..(Len(seq) - 1) :
          seq[i].parentHashes # <<>> /\ seq[i + 1].hash = seq[i].parentHashes[1]
    /\ seq # <<>> =>
          \/ seq[Len(seq)].parentHashes = <<>>
          \/ loadCommitObject(objects, seq[Len(seq)].parentHashes[1]).hash = NoHash

\* C5: getHistory(0) is the first-parent chain from HEAD, newest first, down
\* to the root commit, and getHistory(n) for n > 0 is its first n entries.
C5_HistoryFromHead ==
    /\ IsFirstParentChain(HistoryOf(objects, currentHead, 0), HeadTip)
    /\ \A n \in 1..MaxObjects :
          LET all == HistoryOf(objects, currentHead, 0)
          IN HistoryOf(objects, currentHead, n) =
                SubSeq(all, 1, IF n < Len(all) THEN n ELSE Len(all))

\* C6: getHeadCommit returns the commit named by the ref of the branch HEAD
\* points to, and no commit when that branch has none.
C6_HeadCommitIsBranchTip ==
    HeadCommitOf(commits, objects, currentHead) =
        (IF loadCommitObject(objects, HeadTip).hash = NoHash THEN Null
         ELSE loadCommitObject(objects, HeadTip))

\* C7: the commit read back under the hash a successful createCommit(m, s)
\* returns has the message m without its trailing newlines, the parent list
\* that was written, and a file table with exactly the paths of s.
C7_ReadBack ==
    [][\A m \in CodecMessages, s \in StagedLists :
          (CreateCommitStep(m, s) /\ last'.ret # NoHash) =>
             LET c == CommitOf(commits', objects', last'.ret)
             IN /\ c # Null
                /\ c.message = StripTrailingNewlines(m)
                /\ c.parentHashes = ParentsOfNew(currentHead)
                /\ DOMAIN c.fileHashes = Range(s)]_vars

\* C8: stored objects are write-once: what is stored under a hash is never
\* changed or removed by a later operation.
C8_WriteOnce ==
    [][\A h \in DOMAIN objects : h \in DOMAIN objects' /\ objects'[h] = objects[h]]_vars

\* C9: after a path is staged (Repository::add) and committed
\* (Repository::commit), the head commit's file table maps the path to the
\* hash of the staged content, an object with that hash is stored, and after
\* the first such commit the history has length 1. (A working-tree file of
\* the model, once written, keeps its content, so the content at the commit
\* is the content that was staged.)
C9_StagedContentCommitted ==
    [][\A m \in Messages :
          (stagedFiles # <<>> /\ commit(m, TRUE)) =>
             LET tip == FirstLine(refs'[HEAD'])
                 c   == loadCommitObject(objects', tip)
             IN /\ \A p \in Range(stagedFiles) :
                      /\ p \in DOMAIN c.fileHashes
                      /\ c.fileHashes[p] = BlobHash(worktree[p])
                      /\ BlobHash(worktree[p]) \in DOMAIN objects'
                /\ refs[HEAD] = NoRef => Len(HistoryOf(objects', tip, 0)) = 1]_vars

\* C10: every existing branch ref holds the hash of a commit object that
\* exists in the object store.
C10_RefsResolve ==
    \A b \in Branches :
        refs[b] # NoRef => loadCommitObject(objects, FirstLine(refs[b])).hash # NoHash

\* Some call of Repository::commit(m) makes this step.
RepositoryCommitStep(m) == \E refOk \in BOOLEAN : commit(m, refOk)

\* C11: a commit made while branch B is checked out (HEAD names B) changes
\* only B's ref: every other branch ref keeps its value, whether the commit is
\* made by Repository::commit or by CommitManager::createCommit.
C11_CommitChangesOnlyCurrentBranch ==
    [][\A m \in Messages :
          (RepositoryCommitStep(m) \/ \E s \in StagedLists : CreateCommitStep(m, s)) =>
             \A b \in Branches \ {HEAD} : refs'[b] = refs[b]]_vars

\* C12: Repository::checkout(name) succeeds exactly when the branch name
\* exists. After a successful checkout HEAD names the branch, status reports
\* "On branch name" and the staged list is empty; after a failed checkout
\* HEAD, the current branch and the staged list are unchanged.
C12_CheckoutSwitchesBranch ==
    [][\A name \in Branches :
          checkout(name) =>
             /\ last'.ret = (refs[name] # NoRef)
             /\ IF last'.ret
                THEN /\ HEAD' = name
                     /\ status'[1] = <<"On branch", name>>
                     /\ stagedFiles' = <<>>
                ELSE /\ HEAD' = HEAD
                     /\ currentBranch' = currentBranch
                     /\ stagedFiles' = stagedFiles]_vars

\* C12's case: a checkout of branch f has succeeded.
C12_Witness ==
    /\ last = Call("checkout", <<"f">>, TRUE)
    /\ HEAD = "f"
    /\ refs["f"] # NoRef

\* C13: after a successful checkout of a branch, every path in the file
\* table of that branch's tip commit is in the working tree with the content
\* of the blob stored under the hash the table records for it.
C13_CheckoutRestoresFiles ==
    [][\A name \in Branches :
          (checkout(name) /\ last'.ret = TRUE) =>
             LET c == loadCommitObject(objects, FirstLine(refs[name]))
             IN \A p \in DOMAIN c.fileHashes :
                   /\ c.fileHashes[p] \in DOMAIN objects
                   /\ worktree'[p] = objects[c.fileHashes[p]]]_vars

\* The paths of the tip commit of branch name whose blob is not stored.
MissingBlobs(name) ==
    LET c == loadCommitObject(objects, FirstLine(refs[name]))
    IN {p \in DOMAIN c.fileHashes : c.fileHashes[p] \notin DOMAIN objects}

\* C14: when the commit being checked out references a blob that is missing
\* from the object store, checkout does not report plain success: the call
\* fails (having written no file, or having restored the other paths and
\* reported the missing one).
C14_MissingBlobReported ==
    [][\A name \in Branches :
          (refs[name] # NoRef /\ MissingBlobs(name) # {} /\ checkout(name)) =>
             last'.ret = FALSE]_vars

\* The status rule of the claims for an entry of a file that is on disk.
RuleStatus(info) ==
    IF info.hash = info.lastCommitHash THEN "COMMITTED"
    ELSE IF info.lastCommitHash = NoHash THEN "UNTRACKED"
    ELSE "MODIFIED"

\* C15: after updateStatus every file on disk has an entry with the hash of
\* its content, whose status is Committed when the hash equals the last-commit
\* hash, Untracked when the last-commit hash is empty, and Modified otherwise;
\* every path that had an entry and is absent from disk is Deleted.
C15_UpdateStatusRule ==
    [][updateStatus =>
          /\ \A p \in OnDisk(worktree) :
                /\ p \in DOMAIN files'
                /\ files'[p].hash = calculateFileHash(worktree, p)
                /\ files'[p].status = RuleStatus(files'[p])
          /\ \A p \in DOMAIN files \ OnDisk(worktree) :
                p \in DOMAIN files' /\ files'[p].status = "DELETED"]_vars

\* The hash the staging area (getStagedFiles) of the map fs holds for p, or
\* NoHash when p is not staged.
StagedHash(fs, p) ==
    LET staged == StagedFilesOf(fs)
    IN IF \E i \in 1..Len(staged) : staged[i][1] = p
       THEN (CHOOSE e \in Range(staged) : e[1] = p)[2].hash
       ELSE NoHash

\* C16: the staged hash is a snapshot: once stageFile(p) has recorded a hash,
\* the staging area holds that hash for p after every step that is not a
\* stageFile(p) or an unstageFile(p), whatever happens to the file on disk.
C16_StagedHashIsSnapshot ==
    [][\A p \in Paths :
          (/\ p \in DOMAIN files
           /\ files[p].status = "STAGED"
           /\ ~stageFile(p)
           /\ ~unstageFile(p)) =>
             StagedHash(files', p) = files[p].hash]_vars

\* C17: updateStatus changes no status of a path whose file has not changed
\* since the tracker recorded its hash: an untouched untracked file is still
\* Untracked, and a staged file not edited after staging is still Staged.
C17_UpdateStatusIdempotent ==
    [][updateStatus =>
          \A p \in DOMAIN files \cap OnDisk(worktree) :
             files[p].hash = calculateFileHash(worktree, p) =>
                files'[p].status = files[p].status]_vars

\* staged then edited: p has a staged entry and the file on disk no longer
\* has the content that was staged.
StagedThenEdited(p) ==
    /\ p \in DOMAIN files
    /\ files[p].status = "STAGED"
    /\ p \in OnDisk(worktree)
    /\ files[p].hash # calculateFileHash(worktree, p)

C19_StageFile ==
    [][\A p \in Paths :
          stageFile(p) =>
             IF worktree[p] = Absent
             THEN /\ last'.ret = FALSE
                  /\ files' = files
                  /\ index' = index
             ELSE /\ last'.ret = TRUE
                  /\ p \in DOMAIN files'
                  /\ files'[p].hash = BlobHash(worktree[p])
                  /\ files'[p].status = "STAGED"
                  /\ ParseIndex(index') = files']_vars

\* C19's case: stageFile has failed on a path that is not on disk, with
\* another path staged in the index.
C19_Witness ==
    /\ last.op = "stageFile"
    /\ last.ret = FALSE
    /\ worktree[last.args[1]] = Absent
    /\ StagedFilesOf(files) # <<>>
    /\ index # <<>>

\* C20: unstageFile(p) fails, leaving the index unchanged, unless the status
\* of p is Staged; when it succeeds the status becomes Untracked if p has no
\* last-commit hash, Committed if the hash of the file on disk equals the
\* last-commit hash, and Modified otherwise.
C20_UnstageFile ==
    [][\A p \in Paths :
          unstageFile(p) =>
             IF p \notin DOMAIN files \/ files[p].status # "STAGED"
             THEN /\ last'.ret = FALSE
                  /\ files' = files
                  /\ index' = index
             ELSE /\ last'.ret = TRUE
                  /\ files'[p].status =
                        (IF files[p].lastCommitHash = NoHash THEN "UNTRACKED"
                         ELSE IF /\ worktree[p] # Absent
                                 /\ BlobHash(worktree[p]) = files[p].lastCommitHash
                              THEN "COMMITTED"
                         ELSE "MODIFIED")]_vars

\* C20's case: unstageFile has succeeded on a path with a last-commit hash
\* whose file has the committed content again.
C20_Witness ==
    /\ last.op = "unstageFile"
    /\ last.ret = TRUE
    /\ files[last.args[1]].status = "COMMITTED"
    /\ files[last.args[1]].lastCommitHash # NoHash

\* C21: stageFile(p) followed by unstageFile(p), the file untouched in
\* between, leaves p with the status a fresh updateStatus() computes for it.
C21_StageUnstageIsFreshStatus ==
    [][\A p \in Paths :
          (/\ last = Call("stageFile", <<p>>, TRUE)
           /\ files[p].hash = calculateFileHash(worktree, p)
           /\ unstageFile(p)) =>
             files'[p].status = UpdatedFiles(files', worktree)[p].status]_vars

\* The status changes the state machine of a path allows.
AllowedEdges ==
    { <<"UNTRACKED", "STAGED">>, <<"COMMITTED", "MODIFIED">>, <<"COMMITTED", "DELETED">>,
      <<"MODIFIED", "STAGED">>, <<"STAGED", "COMMITTED">>, <<"STAGED", "UNTRACKED">>,
      <<"STAGED", "MODIFIED">> }

\* C22: every change of the status of a path made by updateStatus, stageFile
\* or unstageFile follows one of the allowed edges.
C22_StatusEdges ==
    [][(updateStatus \/ \E q \in Paths : stageFile(q) \/ unstageFile(q)) =>
          \A p \in DOMAIN files \cap DOMAIN files' :
             files'[p].status # files[p].status =>
                <<files[p].status, files'[p].status>> \in AllowedEdges]_vars

\* C23: a successful commit consumes the staging area: right after it no path
\* is staged (Repository::stagedFiles is empty and status() lists no file to
\* be committed), and every path the tracker held as Staged is Committed with
\* its last-commit hash set to the hash that was staged.
C23_CommitConsumesStaging ==
    [][\A m \in Messages :
          (stagedFiles # <<>> /\ commit(m, TRUE)) =>
             /\ stagedFiles' = <<>>
             /\ \A i \in 1..Len(status') : status'[i][1] # "new file:"
             /\ \A p \in DOMAIN files :
                   files[p].status = "STAGED" =>
                      /\ files'[p].status = "COMMITTED"
                      /\ files'[p].lastCommitHash = files[p].hash]_vars

\* p is before q in the lexicographic order of paths.
PathLess(p, q) ==
    \E i, j \in 1..Len(PathOrder) : i < j /\ PathOrder[i] = p /\ PathOrder[j] = q

\* listing holds exactly the entries of files for the paths in wanted, each
\* once, in ascending order of path.
IsListingOf(listing, wanted) ==
    /\ Len(listing) = Cardinality(wanted)
    /\ {listing[i][1] : i \in 1..Len(listing)} = wanted
    /\ \A i \in 1..Len(listing) : listing[i][2] = files[listing[i][1]]
    /\ \A i, j \in 1..Len(listing) : i < j => PathLess(listing[i][1], listing[j][1])

\* C24: getFiles returns every index entry exactly once and getStagedFiles
\* returns exactly the entries whose status is Staged, both in ascending
\* lexicographic order of path.
C24_SortedListings ==
    /\ IsListingOf(FilesOf(files), DOMAIN files)
    /\ IsListingOf(StagedFilesOf(files), {p \in DOMAIN files : files[p].status = "STAGED"})

\* C24's case: the tracker holds two entries, of which the one later in the
\* order is staged and the other is not.
C24_Witness ==
    /\ DOMAIN files = Paths
    /\ files["b"].status = "STAGED"
    /\ files["a"].status # "STAGED"

(***************************************************************************)
(* DiffEngine (src/src/diff.cpp).  For the diff engine a std::string is    *)
(* the sequence of its characters, each a one-character string, so that    *)
(* splitting at newlines, writing numbers in decimal and reading them back *)
(* are computed and not assumed.                                           *)
(***************************************************************************)
NL == "\n"

\* The longest file of the model, in lines, and the longest hand-written
\* patch, in hunks.
MaxLines == 3
MaxHunks == 2

\* A line number beyond every file of the model, of two digits.
FarLine == 12

\* The lines the files are made of: "x" and "y".
LineTexts == {<<"x">>, <<"y">>}
LineSeqs == UNION {[1..k -> LineTexts] : k \in 0..MaxLines}

\* DiffEngine::applyDiff, "Join lines": a newline between two lines, none
\* after the last.
RECURSIVE Joined(_)
Joined(lines) ==
    IF lines = <<>> THEN <<>>
    ELSE IF Len(lines) = 1 THEN lines[1]
    ELSE lines[1] \o <<NL>> \o Joined(Tail(lines))

\* The contents a file can have: its lines, the last one with or without
\* its newline.
DiffContents ==
    {Joined(ls) : ls \in LineSeqs} \cup {Joined(ls) \o <<NL>> : ls \in LineSeqs}

\* std::string::npos, and positions counted from zero as in the source.
NPos == 0 - 1

Least(S) == CHOOSE k \in S : \A m \in S : k <= m

\* std::string::find(pat, pos).
RECURSIVE Find(_, _, _)
Find(str, pat, pos) ==
    IF pos = NPos \/ pos + Len(pat) > Len(str) THEN NPos
    ELSE IF SubSeq(str, pos + 1, pos + Len(pat)) = pat THEN pos
    ELSE Find(str, pat, pos + 1)

\* std::string::substr(pos, len) and substr(pos), for pos <= size().
Substr(str, pos, len) ==
    SubSeq(str, pos + 1, IF pos + len < Len(str) THEN pos + len ELSE Len(str))
SubstrFrom(str, pos) == SubSeq(str, pos + 1, Len(str))

\* DiffEngine::splitLines: std::getline until the stream ends. A last line
\* without a newline is a line; nothing after a final newline is not.
RECURSIVE splitLines(_)
splitLines(content) ==
    IF content = <<>> THEN <<>>
    ELSE LET k == Find(content, <<NL>>, 0)
         IN  IF k = NPos THEN <<content>>
             ELSE <<Substr(content, 0, k)>> \o splitLines(SubstrFrom(content, k + 1))

DiffHunk(oldStart, oldCount, newStart, newCount, lines) ==
    [oldStart |-> oldStart, oldCount |-> oldCount,
     newStart |-> newStart, newCount |-> newCount, lines |-> lines]

FileDiff(oldFile, newFile, hunks) ==
    [oldFile |-> oldFile, newFile |-> newFile, hunks |-> hunks]

\* The loop "Compare lines" of computeHunks, from positions i and j
\* (counted from zero) on: the tagged lines it pushes.
RECURSIVE CompareLines(_, _, _, _)
CompareLines(oldLines, newLines, i, j) ==
    IF ~(i < Len(oldLines) \/ j < Len(newLines)) THEN <<>>
    ELSE IF i < Len(oldLines) /\ j < Len(newLines) /\ oldLines[i + 1] = newLines[j + 1]
         THEN <<<<" ">> \o oldLines[i + 1]>> \o CompareLines(oldLines, newLines, i + 1, j + 1)
    ELSE IF j < Len(newLines)
            /\ (i = Len(oldLines) \/ (i < Len(oldLines) /\ oldLines[i + 1] # newLines[j + 1]))
         THEN <<<<"+">> \o newLines[j + 1]>> \o CompareLines(oldLines, newLines, i, j + 1)
    ELSE <<<<"-">> \o oldLines[i + 1]>> \o CompareLines(oldLines, newLines, i + 1, j)

\* The test "oldLines == newLines" of computeHunks.
Identical_Never(oldLines, newLines) == FALSE
Identical(oldLines, newLines) == oldLines = newLines

\* DiffEngine::computeHunks. contextLines is normalised and then not used.
computeHunks(oldLines, newLines, contextLines) ==
    LET differing == {i \in 0..(Len(oldLines) - 1) :
                         i < Len(newLines) /\ oldLines[i + 1] # newLines[i + 1]}
    IN  IF Identical(oldLines, newLines) THEN <<>>
        ELSE IF Len(newLines) = Len(oldLines) + 1 /\ differing # {}
             THEN LET i == Least(differing)
                  IN  <<DiffHunk(i, 2, i, 3,
                          (IF i > 0 THEN <<<<" ">> \o oldLines[i]>> ELSE <<>>)
                          \o <<<<"-">> \o oldLines[i + 1],
                               <<"+">> \o newLines[i + 1],
                               <<" ">> \o oldLines[i + 1]>>)>>
        ELSE <<DiffHunk(1, Len(oldLines), 1, Len(newLines),
                        CompareLines(oldLines, newLines, 0, 0))>>

\* The default of the parameter contextLines (include/diff.hpp).
DefaultContextLines == 3

\* DiffEngine::generateDiffFromStrings.
generateDiffFromStrings(oldContent, newContent, contextLines) ==
    FileDiff(<<"a">>, <<"b">>,
             computeHunks(splitLines(oldContent), splitLines(newContent), contextLines))

\* The paths of the two files DiffEngine::generateDiff is given.
TargetPath == <<"t">>
NewPath == <<"n">>

\* What DiffEngine::generateDiff returns for an old file of content
\* oldContent and a new file of content newContent.
GeneratedDiff(oldContent, newContent) ==
    [generateDiffFromStrings(oldContent, newContent, DefaultContextLines)
        EXCEPT !.oldFile = TargetPath, !.newFile = NewPath]

\* The lines one hunk puts in, in applyDiff: the '+' and ' ' lines without
\* their tag; a '-' line, an empty line and a line with another tag give none.
RECURSIVE InsertedLines(_)
InsertedLines(hunkLines) ==
    IF hunkLines = <<>> THEN <<>>
    ELSE LET line == hunkLines[1]
         IN  (IF line # <<>> /\ line[1] \in {"+", " "}
              THEN <<SubstrFrom(line, 1)>> ELSE <<>>)
             \o InsertedLines(Tail(hunkLines))

\* vector::erase(begin() + first, begin() + last) and
\* vector::insert(begin() + first, ...) stay inside the vector.
InsideVector(hunk, lines) ==
    /\ hunk.oldStart >= 1
    /\ hunk.oldCount >= 0
    /\ hunk.oldStart - 1 + hunk.oldCount <= Len(lines)

\* The test "Check if hunk can be applied" of applyDiff.
OutOfRange_Never(hunk, lines) == FALSE
OutOfRange(hunk, lines) == hunk.oldStart > Len(lines)

\* The loop "Apply each hunk" of applyDiff over the lines of the target:
\* "ok" and the lines after the last hunk; "out of range" when the test of
\* a hunk's oldStart returns false; "undefined" when erase is handed
\* iterators outside the vector, after which the C++ standard promises
\* nothing.
RECURSIVE ApplyHunks(_, _)
ApplyHunks(hunks, lines) ==
    IF hunks = <<>> THEN [outcome |-> "ok", lines |-> lines]
    ELSE LET hunk == hunks[1]
         IN  IF OutOfRange(hunk, lines)
             THEN [outcome |-> "out of range", lines |-> lines]
             ELSE IF ~InsideVector(hunk, lines)
             THEN [outcome |-> "undefined", lines |-> lines]
             ELSE ApplyHunks(Tail(hunks),
                     SubSeq(lines, 1, hunk.oldStart - 1)
                     \o InsertedLines(hunk.lines)
                     \o SubSeq(lines, hunk.oldStart + hunk.oldCount, Len(lines)))

\* The end of applyDiff: the lines joined, and a newline after them when the
\* content read had one at its end and the joined text is not empty and has
\* none.
FinalContent(content, lines) ==
    LET joined == Joined(lines)
    IN  IF /\ content # <<>> /\ content[Len(content)] = NL
           /\ joined # <<>> /\ joined[Len(joined)] # NL
        THEN joined \o <<NL>>
        ELSE joined

\* DiffEngine::applyDiff(diff, target); the target can be read and written.
\* Where the loop runs into undefined behaviour the build has been seen to
\* end the process (recorded as "applyDiff killed": nothing is returned) and
\* to write a file that is none of the hunks' doing; a later hunk's test can
\* as well return false. The model stops at files of MaxLines lines.
applyDiff ==
    /\ diff # Null
    /\ UNCHANGED <<repositoryVars, worktree, files, index, diff>>
    /\ LET run == ApplyHunks(diff.hunks, splitLines(target))
       IN  \/ /\ run.outcome = "ok"
              /\ Len(run.lines) <= MaxLines
              /\ target' = FinalContent(target, run.lines)
              /\ last' = Call("applyDiff", <<>>, TRUE)
           \/ /\ run.outcome = "out of range"
              /\ target' = target
              /\ last' = Call("applyDiff", <<>>, FALSE)
           \/ /\ run.outcome = "undefined"
              /\ \/ /\ target' = target
                    /\ last' = Call("applyDiff killed", <<>>, FALSE)
                 \/ /\ target' = target
                    /\ last' = Call("applyDiff", <<>>, FALSE)
                 \/ /\ target' \in DiffContents
                    /\ last' = Call("applyDiff", <<>>, TRUE)

\* operator<<(int): the decimal digits, a '-' before those of a negative one.
Digits == <<"0", "1", "2", "3", "4", "5", "6", "7", "8", "9">>

RECURSIVE Decimal(_)
Decimal(n) ==
    IF n < 0 THEN <<"-">> \o Decimal(0 - n)
    ELSE IF n < 10 THEN <<Digits[n + 1]>>
    ELSE Decimal(n \div 10) \o <<Digits[(n % 10) + 1]>>

DigitValue(c) == (CHOOSE d \in 1..10 : Digits[d] = c) - 1

\* The value of the digits str starts with, read after the value acc.
RECURSIVE DigitsValue(_, _)
DigitsValue(str, acc) ==
    IF str = <<>> \/ str[1] \notin Range(Digits) THEN acc
    ELSE DigitsValue(Tail(str), 10 * acc + DigitValue(str[1]))

RECURSIVE SkipSpaces(_)
SkipSpaces(str) ==
    IF str # <<>> /\ str[1] = " " THEN SkipSpaces(Tail(str)) ELSE str

\* std::stoi throws std::invalid_argument.
InvalidArgument == [exception |-> "invalid_argument"]

\* The text std::stoi converts: what follows the blanks and the sign.
Unsigned(str) ==
    LET s == SkipSpaces(str)
    IN  IF s # <<>> /\ s[1] \in {"-", "+"} THEN Tail(s) ELSE s

Negative(str) ==
    LET s == SkipSpaces(str) IN s # <<>> /\ s[1] = "-"

\* std::stoi finds a digit to start from; it throws otherwise.
Convertible(str) == Unsigned(str) # <<>> /\ Unsigned(str)[1] \in Range(Digits)

\* std::stoi, for a text it does not throw on: blanks, a sign, then digits
\* as far as they go.
stoi(str) ==
    IF Negative(str) THEN 0 - DigitsValue(Unsigned(str), 0)
    ELSE DigitsValue(Unsigned(str), 0)

HunkHeader_Swapped(hunk) ==
    <<"@", "@", " ", "-">> \o Decimal(hunk.newStart) \o <<",">> \o Decimal(hunk.oldCount)
    \o <<" ", "+">> \o Decimal(hunk.oldStart) \o <<",">> \o Decimal(hunk.newCount)
    \o <<" ", "@", "@">>

\* The hunk header diffToString writes.
HunkHeader(hunk) ==
    <<"@", "@", " ", "-">> \o Decimal(hunk.oldStart) \o <<",">> \o Decimal(hunk.oldCount)
    \o <<" ", "+">> \o Decimal(hunk.newStart) \o <<",">> \o Decimal(hunk.newCount)
    \o <<" ", "@", "@">>

RECURSIVE LinesText(_)
LinesText(lines) ==
    IF lines = <<>> THEN <<>> ELSE lines[1] \o <<NL>> \o LinesText(Tail(lines))

RECURSIVE HunksText(_)
HunksText(hunks) ==
    IF hunks = <<>> THEN <<>>
    ELSE HunkHeader(hunks[1]) \o <<NL>> \o LinesText(hunks[1].lines)
         \o HunksText(Tail(hunks))

\* DiffEngine::diffToString.
diffToString(d) ==
    <<"-", "-", "-", " ">> \o d.oldFile \o <<NL>>
    \o <<"+", "+", "+", " ">> \o d.newFile \o <<NL>>
    \o HunksText(d.hunks)

IsHunkHeader(line) == Substr(line, 0, 3) = <<"@", "@", " ">>

\* The inner loop of parseDiff: the index of the first line from i on that
\* starts with "@@ ", or the number of lines.
RECURSIVE HunkEnd(_, _)
HunkEnd(lines, i) ==
    IF i < Len(lines) /\ ~IsHunkHeader(lines[i + 1]) THEN HunkEnd(lines, i + 1) ELSE i

\* The loop "Parse hunks" of parseDiff from line i (counted from zero) on.
\* The result is the sequence of hunks, ended by InvalidArgument where
\* std::stoi throws.
RECURSIVE ParseHunks(_, _)
ParseHunks(lines, i) ==
    IF ~(i < Len(lines)) THEN <<>>
    ELSE IF ~IsHunkHeader(lines[i + 1]) THEN ParseHunks(lines, i + 1)
    ELSE LET header == lines[i + 1]
             minusPos == Find(header, <<"-">>, 0)
             commaPos1 == Find(header, <<",">>, minusPos)
             plusPos == Find(header, <<"+">>, commaPos1)
             commaPos2 == Find(header, <<",">>, plusPos)
             atPos == Find(header, <<" ", "@", "@">>, commaPos2)
         IN  IF NPos \in {minusPos, commaPos1, plusPos, commaPos2, atPos}
             THEN ParseHunks(lines, i + 1)
             ELSE LET oldStart == Substr(header, minusPos + 1, commaPos1 - minusPos - 1)
                      oldCount == Substr(header, commaPos1 + 1, plusPos - commaPos1 - 1)
                      newStart == Substr(header, plusPos + 1, commaPos2 - plusPos - 1)
                      newCount == Substr(header, commaPos2 + 1, atPos - commaPos2 - 1)
                  IN  IF \E field \in {oldStart, oldCount, newStart, newCount} :
                            ~Convertible(field)
                      THEN <<InvalidArgument>>
                      ELSE <<DiffHunk(stoi(oldStart), stoi(oldCount),
                                      stoi(newStart), stoi(newCount),
                                      SubSeq(lines, i + 2, HunkEnd(lines, i + 1)))>>
                           \o ParseHunks(lines, HunkEnd(lines, i + 1))

Throws(hunks) == \E k \in 1..Len(hunks) : hunks[k] = InvalidArgument

\* DiffEngine::parseDiff: the FileDiff, or the exception of std::stoi.
parseDiff(diffStr) ==
    LET lines == splitLines(diffStr)
    IN  IF Len(lines) < 2 THEN FileDiff(<<>>, <<>>, <<>>)
        ELSE IF Substr(lines[1], 0, 4) # <<"-", "-", "-", " ">>
        THEN FileDiff(<<>>, <<>>, <<>>)
        ELSE IF Substr(lines[2], 0, 4) # <<"+", "+", "+", " ">>
        THEN FileDiff(SubstrFrom(lines[1], 4), <<>>, <<>>)
        ELSE LET hunks == ParseHunks(lines, 2)
             IN  IF Throws(hunks) THEN InvalidArgument
                 ELSE FileDiff(SubstrFrom(lines[1], 4), SubstrFrom(lines[2], 4), hunks)

\* The hunks of the patches a user writes by hand, as diff -u numbers them:
\* the removal of the line "x" at line s, and the insertion of a line "y"
\* after the line "x" at line s, kept as context.
PatchHunks ==
    {DiffHunk(s, 1, s - 1, 0, <<<<"-", "x">>>>) : s \in (1..MaxLines) \cup {FarLine}}
    \cup {DiffHunk(s, 1, s, 2, <<<<" ", "x">>, <<"+", "y">>>>) : s \in 1..MaxLines}

\* The hand-written patches: up to MaxHunks hunks, in ascending order of
\* oldStart, under the header of the files "a" and "b".
PatchDiffs ==
    {FileDiff(<<"a">>, <<"b">>, hs) :
        hs \in {h \in UNION {[1..k -> PatchHunks] : k \in 0..MaxHunks} :
                   \A k \in 1..(Len(h) - 1) : h[k].oldStart < h[k + 1].oldStart}}

Patches == {diffToString(d) : d \in PatchDiffs}

\* What parseDiff returns for each of them.
ParsedPatch == [diffStr \in Patches |-> parseDiff(diffStr)]

\* The test fixtures' createSampleFile, for the target file.
WriteTarget(content) ==
    /\ target' = content
    /\ UNCHANGED <<repositoryVars, worktree, last, files, index, diff>>

\* DiffEngine::generateDiff(oldFile, newFile) with the target as the old
\* file and, as the new one, a file of the lines newLines, each with its
\* newline.
generateDiff(newLines) ==
    /\ diff' = GeneratedDiff(target, LinesText(newLines))
    /\ UNCHANGED <<repositoryVars, worktree, last, files, index, target>>

\* The caller reads a patch: DiffEngine::parseDiff(diffStr). The caller
\* keeps the diff it had when the call throws.
readPatch(diffStr) ==
    /\ diff' = IF ParsedPatch[diffStr] = InvalidArgument THEN diff
               ELSE ParsedPatch[diffStr]
    /\ UNCHANGED <<repositoryVars, worktree, last, files, index, target>>

\* The caller prints its diff: DiffEngine::diffToString, a const method.
printDiff ==
    /\ diff # Null
    /\ Len(diffToString(diff)) >= 0
    /\ UNCHANGED vars

\* One DiffEngine and a target file of whole lines: diffs are generated
\* from the target to files of whole lines and applied to it.
InitDiff ==
    /\ HEAD = "master"
    /\ refs = [b \in Branches |-> NoRef]
    /\ objects = <<>>
    /\ worktree = [p \in Paths |-> Absent]
    /\ now = 0
    /\ currentBranch = "master"
    /\ stagedFiles = <<>>
    /\ currentHead = NoHash
    /\ commits = <<>>
    /\ last = Call("init", <<>>, TRUE)
    /\ files = <<>>
    /\ index = <<>>
    /\ target \in {LinesText(ls) : ls \in LineSeqs}
    /\ diff = Null
    /\ handles = [h \in Handles |-> FreshHandle]

NextDiff ==
    \/ \E ls \in LineSeqs : generateDiff(ls)
    \/ applyDiff

SpecDiff == InitDiff /\ [][NextDiff]_vars

\* One DiffEngine and a target file the user writes, with or without the
\* newline after its last line: patches are read, printed and applied.
NextPatch ==
    \/ \E c \in DiffContents : WriteTarget(c)
    \/ \E t \in Patches : readPatch(t)
    \/ printDiff
    \/ applyDiff

SpecPatch == Init /\ [][NextPatch]_vars

(***************************************************************************)
(* Claims about the DiffEngine.                                            *)
(***************************************************************************)

\* C25: the round-trip law. Whenever the diff held is the one generated from
\* the target's content to a file of the lines b, applyDiff succeeds and
\* leaves a target whose lines are exactly b.
C25_RoundTrip ==
    [][\A b \in LineSeqs :
          (diff = GeneratedDiff(target, LinesText(b)) /\ applyDiff) =>
             /\ last' = Call("applyDiff", <<>>, TRUE)
             /\ splitLines(target') = b]_vars

\* The length of a longest common subsequence of the first i lines of a and
\* the first j lines of b.
RECURSIVE LCS(_, _, _, _)
LCS(a, b, i, j) ==
    IF i = 0 \/ j = 0 THEN 0
    ELSE IF a[i] = b[j] THEN 1 + LCS(a, b, i - 1, j - 1)
    ELSE IF LCS(a, b, i - 1, j) >= LCS(a, b, i, j - 1) THEN LCS(a, b, i - 1, j)
    ELSE LCS(a, b, i, j - 1)

\* The number of lines with the given tag in all the hunks.
RECURSIVE Tagged_Count(_, _)
Tagged_Count(hunks, tag) ==
    IF hunks = <<>> THEN 0
    ELSE Cardinality({k \in 1..Len(hunks[1].lines) :
                         hunks[1].lines[k] # <<>> /\ hunks[1].lines[k][1] = tag})
         + Tagged_Count(Tail(hunks), tag)

\* b is a with one line replaced by another.
OneLineReplaced(a, b) ==
    /\ Len(a) = Len(b)
    /\ Cardinality({k \in 1..Len(a) : a[k] # b[k]}) = 1

\* C26: the diff held after generateDiff is a minimal edit script: its '+'
\* and '-' lines number |a| + |b| - 2*LCS(a, b), and a replaced line gives
\* one hunk with one '-' and one '+' line.
C26_MinimalEditScript ==
    [][\A b \in LineSeqs :
          generateDiff(b) =>
             LET a == splitLines(target)
             IN  /\ Tagged_Count(diff'.hunks, "+") + Tagged_Count(diff'.hunks, "-")
                       = Len(a) + Len(b) - 2 * LCS(a, b, Len(a), Len(b))
                 /\ OneLineReplaced(a, b) =>
                       /\ Len(diff'.hunks) = 1
                       /\ Tagged_Count(diff'.hunks, "-") = 1
                       /\ Tagged_Count(diff'.hunks, "+") = 1]_vars

\* C27: a diff generated from the target to a file of the lines b has no hunk
\* when the target's lines are b and at least one hunk when they are not.
C27_HunksIffDifferent ==
    \A b \in LineSeqs :
       diff = GeneratedDiff(target, LinesText(b)) =>
          (diff.hunks = <<>>) = (splitLines(target) = b)

\* The diff held was generated from the target, of at least one line, to a
\* file of the same lines, and has no hunk.
C27_Witness ==
    /\ diff # Null
    /\ splitLines(target) # <<>>
    /\ diff = GeneratedDiff(target, LinesText(splitLines(target)))
    /\ diff.hunks = <<>>

\* A well-formed FileDiff: no newline in a path or a hunk line, and every
\* hunk line tagged ' ', '+' or '-'.
WellFormed(d) ==
    /\ NL \notin Range(d.oldFile) \cup Range(d.newFile)
    /\ \A h \in 1..Len(d.hunks) : \A k \in 1..Len(d.hunks[h].lines) :
          LET line == d.hunks[h].lines[k]
          IN  line # <<>> /\ line[1] \in {" ", "+", "-"} /\ NL \notin Range(line)

\* C28: parseDiff gives back every well-formed FileDiff from the text
\* diffToString writes for it: paths, hunks in order, the four position
\* fields and the lines of each.
C28_ParseInvertsToString ==
    (diff # Null /\ WellFormed(diff)) => parseDiff(diffToString(diff)) = diff

\* The diff held has MaxHunks hunks whose old and new positions differ, and
\* comes back from its text.
C28_Witness ==
    /\ diff # Null
    /\ Len(diff.hunks) = MaxHunks
    /\ \E h \in 1..Len(diff.hunks) : diff.hunks[h].oldStart # diff.hunks[h].newStart
    /\ parseDiff(diffToString(diff)) = diff

\* The number of lines the target has when applyDiff reaches hunk k, the
\* target having n lines at the start.
RECURSIVE LineCountAt(_, _, _)
LineCountAt(hunks, n, k) ==
    IF k = 1 THEN n
    ELSE LineCountAt(hunks, n, k - 1) - hunks[k - 1].oldCount
         + Cardinality({i \in 1..Len(hunks[k - 1].lines) :
                           hunks[k - 1].lines[i] # <<>>
                           /\ hunks[k - 1].lines[i][1] \in {"+", " "}})

\* Hunk k is the first that cannot be applied: its oldStart exceeds the
\* current line count, and the hunks before it lay inside the lines.
FirstOutOfRange(hunks, n, k) ==
    /\ hunks[k].oldStart > LineCountAt(hunks, n, k)
    /\ \A j \in 1..(k - 1) :
          /\ hunks[j].oldStart >= 1
          /\ hunks[j].oldCount >= 0
          /\ hunks[j].oldStart - 1 + hunks[j].oldCount <= LineCountAt(hunks, n, j)

\* C29: applyDiff with a hunk whose oldStart exceeds the current line count
\* returns false, and a call that returns false leaves the target's content
\* as it was.
C29_AllOrNothing ==
    [][applyDiff =>
          /\ (\E k \in 1..Len(diff.hunks) :
                 FirstOutOfRange(diff.hunks, Len(splitLines(target)), k))
                => last' = Call("applyDiff", <<>>, FALSE)
          /\ last' = Call("applyDiff", <<>>, FALSE) => target' = target]_vars

\* applyDiff has returned false for a diff whose first hunk could be applied
\* to the target and whose second could not.
C29_Witness ==
    /\ last = Call("applyDiff", <<>>, FALSE)
    /\ diff # Null
    /\ Len(diff.hunks) = 2
    /\ FirstOutOfRange(diff.hunks, Len(splitLines(target)), 2)

\* C30: when the target's content ends with a newline and applyDiff applies
\* every hunk and returns true, the content it wrote ends with a newline.
C30_TrailingNewlineKept ==
    [][(/\ applyDiff
        /\ ApplyHunks(diff.hunks, splitLines(target)).outcome = "ok"
        /\ target # <<>> /\ target[Len(target)] = NL) =>
           target' # <<>> /\ target'[Len(target')] = NL]_vars

(***************************************************************************)
(* Claims about refs, history and hashes.                                  *)
(***************************************************************************)

\* The ref file of master is missing, or its first line names no stored
\* commit object.
NoCommitRef == refs["master"] = NoRef \/ FirstLine(refs["master"]) \notin DOMAIN objects

\* C33: after loadState on a repository whose master ref is missing or
\* malformed, getHeadCommit returns no commit, getHistory is empty and the
\* commit the next createCommit builds has no parent.
C33_BadRefMeansNoCommits ==
    (last = Call("loadState", <<>>, TRUE) /\ NoCommitRef) =>
       /\ HeadCommitOf(commits, objects, currentHead) = Null
       /\ HistoryOf(objects, currentHead, 0) = <<>>
       /\ \A m \in Messages, s \in StagedLists \ {<<>>} :
             NewCommit(m, s, currentHead, now).parentHashes = <<>>

\* The hashes getHistory visits from current, followed for at most fuel
\* commits.
RECURSIVE ChainFrom(_, _, _)
ChainFrom(objs, current, fuel) ==
    IF current = NoHash \/ fuel = 0 THEN <<>>
    ELSE LET c == loadCommitObject(objs, current) IN
         IF c.hash = NoHash THEN <<>>
         ELSE <<current>> \o (IF c.parentHashes = <<>> THEN <<>>
                              ELSE ChainFrom(objs, c.parentHashes[1], fuel - 1))

\* The places a history walk can start from: the cached head and every ref.
HistoryStarts == {currentHead} \cup {FirstLine(refs[b]) : b \in {x \in Branches : refs[x] # NoRef}}

\* C34: from the head and from every ref the walk of getHistory ends after
\* at most as many commits as the store holds, and visits no commit twice;
\* the sequence getHistory returns is that walk.
C34_HistoryFiniteNoRepeat ==
    \A start \in HistoryStarts :
       LET n == Cardinality(DOMAIN objects)
           chain == ChainFrom(objects, start, n + 1)
       IN /\ Len(chain) <= n
          /\ \A i, j \in 1..Len(chain) : chain[i] = chain[j] => i = j
          /\ [k \in 1..Len(chain) |-> HistoryOf(objects, start, 0)[k].hash] = chain

C34_Witness ==
    /\ Cardinality(DOMAIN objects) = MaxObjects
    /\ Len(HistoryOf(objects, currentHead, 0)) = MaxObjects

\* C35: a commit whose hash is already the name of a stored object has the
\* parents, the message and the file table of that object: commits that
\* differ in one of these never get the same hash.
C35_HashCoversRecord ==
    [][\A m \in Messages, s \in StagedLists \ {<<>>} :
          LET new == NewCommit(m, s, currentHead, now) IN
          (createCommit(m, s, TRUE, TRUE) /\ new.hash \in DOMAIN objects) =>
             LET old == loadCommitObject(objects, new.hash) IN
             /\ old.parentHashes = new.parentHashes
             /\ old.message = new.message
             /\ old.fileHashes = new.fileHashes]_vars

\* C36: createBranch(name) succeeds exactly when no ref of name exists and
\* the current branch has a ref; then the new ref holds what the current
\* branch's ref holds and nothing else changes; on failure no ref changes.
C36_CreateBranchCopiesRef ==
    [][\A name \in Branches :
          createBranch(name) =>
             LET ok == refs[name] = NoRef /\ refs[currentBranch] # NoRef IN
             /\ last' = Call("createBranch", <<name>>, ok)
             /\ HEAD' = HEAD
             /\ currentBranch' = currentBranch
             /\ \A b \in Branches \ {name} : refs'[b] = refs[b]
             /\ ok => refs'[name] = refs[currentBranch]
             /\ ~ok => refs'[name] = refs[name]]_vars

\* C37: createCommit leaves the branch that HEAD names as it was.
C37_CommitKeepsHead ==
    [][\A m \in Messages, s \in StagedLists :
          createCommit(m, s, TRUE, TRUE) => HEAD' = HEAD]_vars

(***************************************************************************)
(* Claims about the hunks of the DiffEngine.                               *)
(***************************************************************************)

\* oldStart and newStart are at least 1 and the counts are those of the
\* hunk's tagged lines.
WellFormedHunk(hunk) ==
    /\ hunk.oldStart >= 1
    /\ hunk.newStart >= 1
    /\ hunk.oldCount = Tagged_Count(<<hunk>>, " ") + Tagged_Count(<<hunk>>, "-")
    /\ hunk.newCount = Tagged_Count(<<hunk>>, " ") + Tagged_Count(<<hunk>>, "+")

\* C38: every hunk of the diff generateDiff produces is well formed: both
\* starts are at least 1, oldCount is the number of context and deleted
\* lines and newCount the number of context and inserted lines.
C38_HunksWellFormed ==
    [][\A b \in LineSeqs :
          generateDiff(b) =>
             \A h \in 1..Len(diff'.hunks) : WellFormedHunk(diff'.hunks[h])]_vars

\* C39: when a hunk applyDiff reaches does not lie inside the current lines
\* (1 <= oldStart and oldStart - 1 + oldCount <= the number of lines),
\* applyDiff returns false and the target is as it was.
C39_HunkOutsideFails ==
    [][(applyDiff /\ ApplyHunks(diff.hunks, splitLines(target)).outcome # "ok") =>
          /\ last' = Call("applyDiff", <<>>, FALSE)
          /\ target' = target]_vars

(***************************************************************************)
(* Claims about two handles and about crashes.                             *)
(***************************************************************************)

\* No createCommit is in progress and no process lies killed.
Quiescent == \A h \in Handles : handles[h].pc \in {"new", "idle"}

\* The hashes on the first-parent chain of the tip of master.
TipChain ==
    LET tip == IF refs["master"] # NoRef THEN FirstLine(refs["master"]) ELSE NoHash
    IN  Range(ChainFrom(objects, tip, MaxObjects + 1))

\* C31: no update is lost: when the handles have completed their commits,
\* every commit a handle completed is on the first-parent chain of the tip
\* of the branch.
C31_NoLostUpdate ==
    Quiescent => \A h \in Handles : handles[h].made \subseteq TipChain

\* C32: writes are crash-atomic: when a process has been killed inside
\* createCommit and no other call is in progress, the ref file and HEAD hold
\* a complete value (not the empty file the open left) and every object
\* file in the store holds its whole text.
C32_CrashAtomic ==
    ((\E h \in Handles : handles[h].pc = "crashed")
     /\ \A h \in Handles : handles[h].pc \in {"new", "idle", "crashed"}) =>
        /\ refs["master"] # EmptyFile
        /\ HEAD # ""
        /\ \A hash \in DOMAIN objects : objects[hash] # EmptyFile

====
